---- MODULE Spec2Model ----
(***************************************************************************)
(* Model of src/src/buffer.rs: the clock-sweep buffer pool (BufferPool,    *)
(* evict) and the buffer pool manager (BufferPoolManager, fetch_page).     *)
(*                                                                         *)
(* A Buffer is Rc<Buffer>; the frame owns one strong reference, callers    *)
(* own the others.  `holders` of a frame lists the outside references, each *)
(* as the page id it was fetched as (kept sorted: the order of the holders *)
(* means nothing).  Rc::get_mut succeeds exactly when the list is empty.   *)
(***************************************************************************)
EXTENDS Integers, Sequences, FiniteSets, TLC

\* ---------------------------------------------------------------- bounds
NumFrames == 2
NumPages == 3
MaxUsage == 2
MaxHolders == 2
MaxFaults == 1

\* ------------------------------------------------------------- constants
\* Option::None (evict's "no victim", HashMap::get's "no entry")
None == -1
\* the placeholder page [0; PAGE_SIZE]
ZeroPage == 0

BufferIds == 0 .. (NumFrames - 1)
PageIds == 0 .. (NumPages - 1)
\* the durable content page p starts with
DiskData(p) == p + 1
Bytes == 0 .. NumPages
NoHolders == <<>>

VARIABLES
    buffers,          \* BufferPool.buffers: BufferId -> Frame (with its Buffer)
    next_victim_id,   \* BufferPool.next_victim_id
    page_table,       \* BufferPoolManager.page_table: PageId -> BufferId or None
    disk,             \* the DiskManager's durable content: PageId -> Bytes
    last,             \* the call that produced this state and its outcome
    pre,              \* the manager's state when that call began
    ev,               \* position and locals of a running BufferPool::evict
    faults            \* disk operations that have failed so far

vars == <<buffers, next_victim_id, page_table, disk, last, pre, ev, faults>>

\* ------------------------------------------------------------ primitives
\* number of Rc<Buffer> references held outside the pool
HolderCount(frame) == Len(frame.holders)

\* Rc::get_mut(&mut frame.buffer) is None
Pinned(frame) == frame.holders # <<>>

\* one more outside reference, fetched as page p
AddHolder(h, p) ==
    SelectSeq(h, LAMBDA x : x <= p) \o <<p>> \o SelectSeq(h, LAMBDA x : x > p)

\* one outside reference fetched as page p dropped
RemoveHolder(h, p) ==
    LET i == CHOOSE j \in 1 .. Len(h) : h[j] = p
    IN  SubSeq(h, 1, i - 1) \o SubSeq(h, i + 1, Len(h))

HeldAs(frame, p) == \E j \in 1 .. Len(frame.holders) : frame.holders[j] = p

increment_id(buffer_id) == (buffer_id + 1) % NumFrames

\* create_buffer_pool's frame i: usage_count 0, PageId(i), zero bytes, clean
NewFrame(i) ==
    [usage_count |-> 0, page_id |-> i, page |-> ZeroPage, is_dirty |-> FALSE,
     holders |-> NoHolders]

\* ------------------------------------------------------------------ evict
\* the locals of evict on entry (lines 45-46)
EvictEnter(bufs, cursor) ==
    [buffers |-> bufs, next_victim_id |-> cursor, consecutive_pinned |-> 0,
     done |-> FALSE, result |-> None]

\* a sweep that gives a pinned frame its second chance too (no pin test)
EvictIterIgnoringPins(st) ==
    LET id == st.next_victim_id
        frame == st.buffers[id]
    IN  IF frame.usage_count = 0
        THEN [st EXCEPT !.done = TRUE, !.result = id]
        ELSE [st EXCEPT !.buffers[id].usage_count = @ - 1,
                        !.consecutive_pinned = 0,
                        !.next_victim_id = increment_id(id)]

\* a sweep that forgets to reset consecutive_pinned after a decrement
EvictIterKeepsCount(st) ==
    LET id == st.next_victim_id
        frame == st.buffers[id]
    IN  IF frame.usage_count = 0
        THEN [st EXCEPT !.done = TRUE, !.result = id]
        ELSE IF ~Pinned(frame)
        THEN [st EXCEPT !.buffers[id].usage_count = @ - 1,
                        !.next_victim_id = increment_id(id)]
        ELSE IF st.consecutive_pinned + 1 >= NumFrames
        THEN [st EXCEPT !.consecutive_pinned = @ + 1,
                        !.done = TRUE, !.result = None]
        ELSE [st EXCEPT !.consecutive_pinned = @ + 1,
                        !.next_victim_id = increment_id(id)]

\* a sweep that steps the cursor past the frame it selects
EvictIterAdvancesPastVictim(st) ==
    LET id == st.next_victim_id
        frame == st.buffers[id]
    IN  IF frame.usage_count = 0
        THEN [st EXCEPT !.done = TRUE, !.result = id,
                        !.next_victim_id = increment_id(id)]
        ELSE IF ~Pinned(frame)
        THEN [st EXCEPT !.buffers[id].usage_count = @ - 1,
                        !.consecutive_pinned = 0,
                        !.next_victim_id = increment_id(id)]
        ELSE IF st.consecutive_pinned + 1 >= NumFrames
        THEN [st EXCEPT !.consecutive_pinned = @ + 1,
                        !.done = TRUE, !.result = None]
        ELSE [st EXCEPT !.consecutive_pinned = @ + 1,
                        !.next_victim_id = increment_id(id)]

\* a sweep that clears the usage_count instead of lowering it by one
EvictIterClearsCount(st) ==
    LET id == st.next_victim_id
        frame == st.buffers[id]
    IN  IF frame.usage_count = 0
        THEN [st EXCEPT !.done = TRUE, !.result = id]
        ELSE IF ~Pinned(frame)
        THEN [st EXCEPT !.buffers[id].usage_count = 0,
                        !.consecutive_pinned = 0,
                        !.next_victim_id = increment_id(id)]
        ELSE IF st.consecutive_pinned + 1 >= NumFrames
        THEN [st EXCEPT !.consecutive_pinned = @ + 1,
                        !.done = TRUE, !.result = None]
        ELSE [st EXCEPT !.consecutive_pinned = @ + 1,
                        !.next_victim_id = increment_id(id)]

\* a sweep without the saturation counter: pinned frames are just skipped
EvictIterNoSaturation(st) ==
    LET id == st.next_victim_id
        frame == st.buffers[id]
    IN  IF frame.usage_count = 0
        THEN [st EXCEPT !.done = TRUE, !.result = id]
        ELSE IF ~Pinned(frame)
        THEN [st EXCEPT !.buffers[id].usage_count = @ - 1,
                        !.next_victim_id = increment_id(id)]
        ELSE [st EXCEPT !.next_victim_id = increment_id(id)]

\* one iteration of the loop of evict (lines 47-63)
EvictIter(st) ==
    LET id == st.next_victim_id
        frame == st.buffers[id]
    IN  IF frame.usage_count = 0
        THEN [st EXCEPT !.done = TRUE, !.result = id]
        ELSE IF ~Pinned(frame)
        THEN [st EXCEPT !.buffers[id].usage_count = @ - 1,
                        !.consecutive_pinned = 0,
                        !.next_victim_id = increment_id(id)]
        ELSE IF st.consecutive_pinned + 1 >= NumFrames
        THEN [st EXCEPT !.consecutive_pinned = @ + 1,
                        !.done = TRUE, !.result = None]
        ELSE [st EXCEPT !.consecutive_pinned = @ + 1,
                        !.next_victim_id = increment_id(id)]

RECURSIVE EvictRun(_)
EvictRun(st) == IF st.done THEN st ELSE EvictRun(EvictIter(st))

\* BufferPool::evict, run to completion
evict(bufs, cursor) == EvictRun(EvictEnter(bufs, cursor))

\* ------------------------------------------------------------- fetch_page
NoCall ==
    [op |-> "none", page_id |-> None, result |-> "none", path |-> "none",
     victim |-> None, io |-> <<>>]
NoPre == [valid |-> FALSE]
Snapshot ==
    [valid |-> TRUE, buffers |-> buffers, next_victim_id |-> next_victim_id,
     page_table |-> page_table, disk |-> disk]

\* a hit that hands out the handle without counting the use
HitFrameNoBump(frame, page_id) ==
    [frame EXCEPT !.holders = AddHolder(@, page_id)]

\* lines 93-95: the frame after a hit
HitFrame(frame, page_id) ==
    [frame EXCEPT !.usage_count = @ + 1, !.holders = AddHolder(@, page_id)]

\* a fetch that relabels the victim before the write-back is known to succeed
WriteFailedFrameRelabelled(frame, page_id) ==
    [frame EXCEPT !.page_id = page_id, !.is_dirty = FALSE]

\* lines 102-104: the frame when the write-back fails (`?` returns at once)
WriteFailedFrame(frame, page_id) == frame

\* lines 106-107 and the failed read of line 108
FailedLoadFrame(frame, page_id) ==
    [frame EXCEPT !.page_id = page_id, !.is_dirty = FALSE]

\* a load that leaves the victim's usage_count as the sweep left it
LoadedFrameNoCredit(frame, page_id, bytes) ==
    [frame EXCEPT !.page_id = page_id, !.is_dirty = FALSE, !.page = bytes,
                  !.holders = AddHolder(@, page_id)]

\* lines 106-111: the frame after a successful load, handle issued
LoadedFrame(frame, page_id, bytes) ==
    [frame EXCEPT !.page_id = page_id, !.is_dirty = FALSE, !.page = bytes,
                  !.usage_count = 1, !.holders = AddHolder(@, page_id)]

\* lines 112-113: remove the evicted page's entry, insert the new one
TableAfterMiss(table, evict_page_id, page_id, buffer_id) ==
    [[table EXCEPT ![evict_page_id] = None] EXCEPT ![page_id] = buffer_id]

\* an eviction that never flushes
WriteBackSkipped(frame, write_ok) == <<>>

\* an eviction that flushes the victim whether it is dirty or not
WriteBackAlways(frame, write_ok) ==
    <<[op |-> "write", page_id |-> frame.page_id, page |-> frame.page,
       ok |-> write_ok]>>

\* lines 103-105: the disk operations of the write-back
WriteBack(frame, write_ok) ==
    IF frame.is_dirty
    THEN <<[op |-> "write", page_id |-> frame.page_id, page |-> frame.page,
            ok |-> write_ok]>>
    ELSE <<>>

\* the durable content after the operations in io
DiskAfter(d, io) ==
    IF io # <<>> /\ io[1].op = "write" /\ io[1].ok
    THEN [d EXCEPT ![io[1].page_id] = io[1].page]
    ELSE d

Running == last.result # "panic" /\ ev.pc = "idle"

fetch_hit(page_id) ==
    LET buffer_id == page_table[page_id] IN
    /\ buffers[buffer_id].usage_count < MaxUsage
    /\ HolderCount(buffers[buffer_id]) < MaxHolders
    /\ buffers' = [buffers EXCEPT ![buffer_id] = HitFrame(@, page_id)]
    /\ last' = [op |-> "fetch_page", page_id |-> page_id, result |-> "ok",
                path |-> "hit", victim |-> buffer_id, io |-> <<>>]
    /\ UNCHANGED <<next_victim_id, page_table, disk>>

fetch_miss(page_id, write_ok, read_ok) ==
    LET st == evict(buffers, next_victim_id)
        buffer_id == st.result
        call == [op |-> "fetch_page", page_id |-> page_id, result |-> "ok",
                 path |-> "miss", victim |-> buffer_id, io |-> <<>>]
    IN
    /\ next_victim_id' = st.next_victim_id
    /\ IF buffer_id = None
       THEN \* line 98: ok_or(Error::NoFreeBuffer)?
            /\ buffers' = st.buffers
            /\ last' = [call EXCEPT !.result = "no_free_buffer"]
            /\ UNCHANGED <<page_table, disk>>
       ELSE LET frame == st.buffers[buffer_id]
                evict_page_id == frame.page_id
                wio == WriteBack(frame, write_ok)
                disk1 == DiskAfter(disk, wio)
            IN
            IF Pinned(frame)
            THEN \* line 102: unwrap of None
                 /\ buffers' = st.buffers
                 /\ last' = [call EXCEPT !.result = "panic"]
                 /\ UNCHANGED <<page_table, disk>>
            ELSE IF wio # <<>> /\ ~wio[1].ok
            THEN \* line 104: the write fails
                 /\ buffers' = [st.buffers EXCEPT ![buffer_id] =
                        WriteFailedFrame(@, page_id)]
                 /\ last' = [call EXCEPT !.result = "io_error", !.io = wio]
                 /\ UNCHANGED <<page_table, disk>>
            ELSE IF ~read_ok
            THEN \* line 108: the read fails (the byte block is taken to stay
                 \* as it was; DiskManager is not part of this file)
                 /\ buffers' = [st.buffers EXCEPT ![buffer_id] =
                        FailedLoadFrame(@, page_id)]
                 /\ disk' = disk1
                 /\ last' = [call EXCEPT !.result = "io_error",
                        !.io = wio \o <<[op |-> "read", page_id |-> page_id,
                                         page |-> None, ok |-> FALSE]>>]
                 /\ UNCHANGED page_table
            ELSE /\ buffers' = [st.buffers EXCEPT ![buffer_id] =
                        LoadedFrame(@, page_id, disk1[page_id])]
                 /\ disk' = disk1
                 /\ page_table' = TableAfterMiss(page_table, evict_page_id,
                                                 page_id, buffer_id)
                 /\ last' = [call EXCEPT
                        !.io = wio \o <<[op |-> "read", page_id |-> page_id,
                                         page |-> disk1[page_id], ok |-> TRUE]>>]

\* BufferPoolManager::fetch_page (lines 91-115)
fetch_page(page_id) ==
    /\ Running
    /\ pre' = Snapshot
    /\ UNCHANGED ev
    /\ IF page_table[page_id] # None
       THEN fetch_hit(page_id)
       ELSE \E write_ok \in BOOLEAN, read_ok \in BOOLEAN :
                fetch_miss(page_id, write_ok, read_ok)
    /\ faults' = IF last'.result = "io_error" THEN faults + 1 ELSE faults
    /\ faults' <= MaxFaults

\* ------------------------------------------------------------ the callers
\* a caller clones a handle it holds (Rc::clone)
clone_handle(b, p) ==
    /\ Running
    /\ HeldAs(buffers[b], p)
    /\ HolderCount(buffers[b]) < MaxHolders
    /\ buffers' = [buffers EXCEPT ![b].holders = AddHolder(@, p)]
    /\ last' = NoCall
    /\ pre' = NoPre
    /\ UNCHANGED <<next_victim_id, page_table, disk, ev, faults>>

\* a caller drops a handle it holds
drop_handle(b, p) ==
    /\ Running
    /\ HeldAs(buffers[b], p)
    /\ buffers' = [buffers EXCEPT ![b].holders = RemoveHolder(@, p)]
    /\ last' = NoCall
    /\ pre' = NoPre
    /\ UNCHANGED <<next_victim_id, page_table, disk, ev, faults>>

\* a caller marks the buffer behind its handle dirty (is_dirty is a pub Cell)
set_dirty(b) ==
    /\ Running
    /\ Pinned(buffers[b])
    /\ ~buffers[b].is_dirty
    /\ buffers' = [buffers EXCEPT ![b].is_dirty = TRUE]
    /\ last' = NoCall
    /\ pre' = NoPre
    /\ UNCHANGED <<next_victim_id, page_table, disk, ev, faults>>

\* ---------------------------------------------------------- specification
\* the frame evict looked at in its latest loop iteration, as it found it
NoVisit == [id |-> None, usage_count |-> 0, pinned |-> FALSE]
\* the pool as evict found it on entry
PoolSnapshot == [buffers |-> buffers, next_victim_id |-> next_victim_id]

EvIdle ==
    [pc |-> "idle", consecutive_pinned |-> 0, result |-> None,
     entry |-> NoPre, visit |-> NoVisit]

Init ==
    /\ buffers = [i \in BufferIds |-> NewFrame(i)]
    /\ next_victim_id = 0
    /\ page_table = [p \in PageIds |-> None]
    /\ disk = [p \in PageIds |-> DiskData(p)]
    /\ last = NoCall
    /\ pre = NoPre
    /\ ev = EvIdle
    /\ faults = 0

Fetch == \E p \in PageIds : fetch_page(p)
Clone == \E b \in BufferIds, p \in PageIds : clone_handle(b, p)
Drop == \E b \in BufferIds, p \in PageIds : drop_handle(b, p)
SetDirty == \E b \in BufferIds : set_dirty(b)

Next == Fetch \/ Clone \/ Drop \/ SetDirty

Spec == Init /\ [][Next]_vars

\* the manager with a disk that never fails and a pool that is never full:
\* every fetch_page returns Ok
fetch_page_ok(page_id) == fetch_page(page_id) /\ last'.result = "ok"
FetchOk == \E p \in PageIds : fetch_page_ok(p)
NextOk == FetchOk \/ Clone \/ Drop \/ SetDirty
SpecOk == Init /\ [][NextOk]_vars

\* ------------------------------------------- the pool alone (test_evict)
\* The operations test_evict applies to a BufferPool, with evict taken one
\* loop iteration at a time.
PoolIdle == ev.pc \in {"idle", "done"}
mgr == <<page_table, disk, last, pre, faults>>

\* line 137: Rc::clone(&mut pool[BufferId(b)].buffer), the clone kept
PinFrame(bufs, b) ==
    [bufs EXCEPT ![b].holders = AddHolder(@, bufs[b].page_id)]
\* one outside reference to frame b's buffer dropped
ReleaseFrame(bufs, b) == [bufs EXCEPT ![b].holders = Tail(@)]
\* line 138: pool[BufferId(b)].usage_count = n
SetUsage(bufs, b, n) == [bufs EXCEPT ![b].usage_count = n]

\* line 137: an outside Rc::clone of the frame's buffer that is kept
pool_pin(b) ==
    /\ PoolIdle
    /\ HolderCount(buffers[b]) < MaxHolders
    /\ buffers' = PinFrame(buffers, b)
    /\ ev' = EvIdle
    /\ UNCHANGED <<next_victim_id, mgr>>

\* the outside reference goes out of scope
pool_release(b) ==
    /\ PoolIdle
    /\ Pinned(buffers[b])
    /\ buffers' = ReleaseFrame(buffers, b)
    /\ ev' = EvIdle
    /\ UNCHANGED <<next_victim_id, mgr>>

\* line 138: pool[BufferId(b)].usage_count = n
pool_set_usage(b, n) ==
    /\ PoolIdle
    /\ buffers[b].usage_count # n
    /\ buffers' = SetUsage(buffers, b, n)
    /\ ev' = EvIdle
    /\ UNCHANGED <<next_victim_id, mgr>>

\* lines 45-46: evict is entered
pool_evict_enter ==
    /\ PoolIdle
    /\ ev' = [pc |-> "loop", consecutive_pinned |-> 0, result |-> None,
              entry |-> PoolSnapshot, visit |-> NoVisit]
    /\ UNCHANGED <<buffers, next_victim_id, mgr>>

\* lines 47-63: one iteration of evict's loop
pool_evict_iter ==
    /\ ev.pc = "loop"
    /\ LET st == EvictIter([buffers |-> buffers,
                            next_victim_id |-> next_victim_id,
                            consecutive_pinned |-> ev.consecutive_pinned,
                            done |-> FALSE, result |-> None])
       IN  /\ buffers' = st.buffers
           /\ next_victim_id' = st.next_victim_id
           /\ ev' = [pc |-> IF st.done THEN "done" ELSE "loop",
                     consecutive_pinned |-> st.consecutive_pinned,
                     result |-> st.result,
                     entry |-> ev.entry,
                     visit |-> [id |-> next_victim_id,
                          usage_count |-> buffers[next_victim_id].usage_count,
                          pinned |-> Pinned(buffers[next_victim_id])]]
    /\ UNCHANGED mgr

PoolPin == \E b \in BufferIds : pool_pin(b)
PoolRelease == \E b \in BufferIds : pool_release(b)
PoolSetUsage == \E b \in BufferIds, n \in 0 .. MaxUsage : pool_set_usage(b, n)

NextEvict ==
    PoolPin \/ PoolRelease \/ PoolSetUsage \/ pool_evict_enter \/ pool_evict_iter

SpecEvict == Init /\ [][NextEvict]_vars

\* evict's loop does not yield: once entered, it keeps iterating
SpecEvictFair == SpecEvict /\ WF_vars(pool_evict_iter)

\* ================================================================ claims
IsFetch == last.op = "fetch_page"
ReadFailed ==
    /\ IsFetch
    /\ last.result = "io_error"
    /\ last.io # <<>>
    /\ last.io[Len(last.io)].op = "read"
Writes(io) == SelectSeq(io, LAMBDA o : o.op = "write")
SameBuffer(f, g) ==
    f.page_id = g.page_id /\ f.page = g.page /\ f.is_dirty = g.is_dirty

\* C1: every page-table entry (p -> b) points at a frame b whose buffer's
\* page_id is p, in every state reachable by fetches (successful or failing)
\* and handle acquisitions and releases.
C1_EntryPointsAtItsPage ==
    \A p \in PageIds :
        page_table[p] # None => buffers[page_table[p]].page_id = p

\* C2: the page table is injective: no two distinct PageIds map to the same
\* BufferId, also after fetches that failed with an I/O error.
C2_TableInjective ==
    \A p, q \in PageIds :
        (p # q /\ page_table[p] # None /\ page_table[q] # None)
            => page_table[p] # page_table[q]

\* C3: when fetch_page fails because the read of the requested page fails,
\* the victim frame's page_id and dirty flag and the page table are as they
\* were before the call, and no entry points at a frame that no longer holds
\* the entry's page.
C3_ReadFailureCommitsNothing ==
    ReadFailed =>
        /\ buffers[last.victim].page_id = pre.buffers[last.victim].page_id
        /\ buffers[last.victim].is_dirty = pre.buffers[last.victim].is_dirty
        /\ page_table = pre.page_table
        /\ \A p \in PageIds :
              (pre.page_table[p] = last.victim
                    /\ pre.buffers[last.victim].page_id = p)
                 => buffers[page_table[p]].page_id = p

\* C4: no fetch_page overwrites (changes page_id, bytes or dirty flag of) a
\* buffer some caller still holds a handle to: the victim of the miss path
\* has no outside holder, so the unwrap of line 102 never fails.
C4_NoOverwriteOfHeldBuffer ==
    IsFetch =>
        /\ last.result # "panic"
        /\ (last.path = "miss" /\ last.victim # None)
              => ~Pinned(pre.buffers[last.victim])
        /\ \A b \in BufferIds :
              Pinned(pre.buffers[b]) => SameBuffer(buffers[b], pre.buffers[b])

\* a miss loaded a page while the frame under the cursor was held by a caller
C4_Witness ==
    /\ IsFetch /\ last.path = "miss" /\ last.result = "ok"
    /\ Pinned(pre.buffers[pre.next_victim_id])
    /\ last.victim # pre.next_victim_id
    /\ ~SameBuffer(buffers[last.victim], pre.buffers[last.victim])

\* C5: evict never returns a frame whose buffer has an outside holder,
\* whatever the frame's usage_count (0 included) and wherever the cursor is.
C5_VictimHasNoHolder ==
    (ev.pc = "done" /\ ev.result # None) => ~Pinned(buffers[ev.result])

\* C6: if every frame of the pool is pinned, evict returns None, for every
\* cursor position and every assignment of usage counts.
C6_AllPinnedReturnsNone ==
    (ev.pc = "done" /\ \A b \in BufferIds : Pinned(buffers[b]))
        => ev.result = None

\* C7: fetch_page fails with NoFreeBuffer only when the requested page is not
\* in the page table and every frame has an outside holder at the time of the
\* call; when some frame has no outside holder, evict returns a victim and a
\* miss does not fail with NoFreeBuffer.
C7_NoFreeBufferOnlyWhenAllPinned ==
    IsFetch =>
        /\ last.result = "no_free_buffer"
              => /\ pre.page_table[last.page_id] = None
                 /\ \A b \in BufferIds : Pinned(pre.buffers[b])
        /\ (last.path = "miss" /\ \E b \in BufferIds : ~Pinned(pre.buffers[b]))
              => /\ last.victim # None
                 /\ last.result # "no_free_buffer"

\* a miss found every frame held and failed with NoFreeBuffer
C7_Witness ==
    /\ IsFetch /\ last.path = "miss" /\ last.result = "no_free_buffer"
    /\ \A b \in BufferIds : Pinned(pre.buffers[b])

\* C8: on every miss whose victim is dirty exactly one write is issued, for
\* the evicted page's id and with the evicted page's bytes, before the read
\* of the requested page; no dirty frame is repurposed unless that write
\* succeeded.
C8_DirtyVictimIsWrittenFirst ==
    (IsFetch /\ last.path = "miss" /\ last.victim # None) =>
        LET old == pre.buffers[last.victim] IN
        /\ old.is_dirty =>
              /\ Len(Writes(last.io)) = 1
              /\ last.io[1] = [op |-> "write", page_id |-> old.page_id,
                               page |-> old.page, ok |-> last.io[1].ok]
              /\ \A i \in 2 .. Len(last.io) :
                    last.io[i].op = "read" /\ last.io[i].page_id = last.page_id
              /\ ~SameBuffer(buffers[last.victim], old)
                    => /\ last.io[1].ok
                       /\ disk[old.page_id] = old.page
        /\ \A b \in BufferIds :
              (pre.buffers[b].is_dirty /\ b # last.victim)
                 => SameBuffer(buffers[b], pre.buffers[b])

\* a dirty victim was written back and the requested page loaded over it
C8_Witness ==
    /\ IsFetch /\ last.path = "miss" /\ last.result = "ok"
    /\ pre.buffers[last.victim].is_dirty
    /\ Len(last.io) = 2
    /\ buffers[last.victim].page_id # pre.buffers[last.victim].page_id

\* C9: after any successful fetch_page(p) the page table maps p to the frame
\* whose buffer now has page_id p and, on a miss, has no entry for the page
\* that occupied that frame before.
C9_TableAfterSuccessfulFetch ==
    (IsFetch /\ last.result = "ok") =>
        /\ page_table[last.page_id] = last.victim
        /\ buffers[last.victim].page_id = last.page_id
        /\ (last.path = "miss"
                /\ pre.buffers[last.victim].page_id # last.page_id)
              => page_table[pre.buffers[last.victim].page_id] = None

\* C10: fetch_page(p) for a page p in the page table always succeeds (also
\* when every frame is pinned), raises that frame's usage_count by exactly 1,
\* returns a new handle to that frame's buffer and changes nothing else: not
\* the buffer, not another frame, not the cursor, not the page table; it
\* does no disk I/O.
C10_HitEffect ==
    (IsFetch /\ pre.page_table[last.page_id] # None) =>
        LET b == pre.page_table[last.page_id] IN
        /\ last.path = "hit" /\ last.result = "ok" /\ last.victim = b
        /\ buffers[b].usage_count = pre.buffers[b].usage_count + 1
        /\ buffers[b].holders = AddHolder(pre.buffers[b].holders, last.page_id)
        /\ HolderCount(buffers[b]) = HolderCount(pre.buffers[b]) + 1
        /\ SameBuffer(buffers[b], pre.buffers[b])
        /\ \A c \in BufferIds \ {b} : buffers[c] = pre.buffers[c]
        /\ next_victim_id = pre.next_victim_id
        /\ page_table = pre.page_table
        /\ last.io = <<>>
        /\ disk = pre.disk

\* a hit while every frame of the pool was pinned
C10_Witness ==
    /\ IsFetch /\ last.path = "hit" /\ last.result = "ok"
    /\ \A b \in BufferIds : Pinned(pre.buffers[b])

\* C11: when the write-back of a dirty victim fails, fetch_page returns the
\* I/O error, the victim's page_id, bytes and dirty flag (still set) and the
\* page table are unchanged, and no read of the requested page is issued.
C11_WriteFailureLeavesVictim ==
    (IsFetch /\ last.io # <<>> /\ last.io[1].op = "write" /\ ~last.io[1].ok) =>
        /\ last.result = "io_error"
        /\ SameBuffer(buffers[last.victim], pre.buffers[last.victim])
        /\ buffers[last.victim].is_dirty
        /\ page_table = pre.page_table
        /\ Len(last.io) = 1

\* the write-back of a dirty victim failed
C11_Witness ==
    /\ IsFetch /\ last.path = "miss" /\ last.result = "io_error"
    /\ pre.buffers[last.victim].is_dirty
    /\ last.io # <<>> /\ last.io[1].op = "write" /\ ~last.io[1].ok

\* ---- the scenario of test_evict on the 2-frame pool of create_buffer_pool
\* the pool evict leaves behind when entered in pool state s
PoolAfterEvict(s) ==
    LET r == evict(s.buffers, s.next_victim_id)
    IN  [buffers |-> r.buffers, next_victim_id |-> r.next_victim_id]
\* step 1: the fresh pool
Scenario1 ==
    [buffers |-> [i \in BufferIds |-> NewFrame(i)], next_victim_id |-> 0]
\* step 2: frame 0 pinned, its usage_count set to 1
Scenario2 ==
    LET s == PoolAfterEvict(Scenario1)
    IN  [s EXCEPT !.buffers = SetUsage(PinFrame(s.buffers, 0), 0, 1)]
\* step 3: frame 1 pinned too, its usage_count set to 1
Scenario3 ==
    LET s == PoolAfterEvict(Scenario2)
    IN  [s EXCEPT !.buffers = SetUsage(PinFrame(s.buffers, 1), 1, 1)]
\* step 4: the hold on frame 1 released
Scenario4 ==
    LET s == PoolAfterEvict(Scenario3)
    IN  [s EXCEPT !.buffers = ReleaseFrame(s.buffers, 1)]
EvictReturned(s, r) == (ev.pc = "done" /\ ev.entry = s) => ev.result = r

\* C12 as stated: on the 2-frame pool (pages 0 and 1, usage counts 0, cursor
\* 0) evict returns frame 0; with frame 0 pinned and at usage_count 1 it
\* returns frame 1; with frame 1 pinned and at usage_count 1 too it returns
\* None; with the hold on frame 1 released it returns frame 0.
C12_ScenarioAsStated ==
    NumFrames = 2 =>
        /\ EvictReturned(Scenario1, 0)
        /\ EvictReturned(Scenario2, 1)
        /\ EvictReturned(Scenario3, None)
        /\ EvictReturned(Scenario4, 0)

\* C12 amended: the same scenario, the last evict returning frame 1 (frame 0
\* is still pinned; frame 1, released, is swept down to usage_count 0).
C12_Scenario ==
    NumFrames = 2 =>
        /\ EvictReturned(Scenario1, 0)
        /\ EvictReturned(Scenario2, 1)
        /\ EvictReturned(Scenario3, None)
        /\ EvictReturned(Scenario4, 1)

\* the fourth evict of the scenario has returned
C12_Witness ==
    /\ NumFrames = 2
    /\ ev.pc = "done" /\ ev.entry = Scenario4 /\ ev.result = 1
    /\ Pinned(buffers[0]) /\ ~Pinned(buffers[1])

\* C13: a fetch_page call performs 0, 1 or 2 disk operations, never more: 0
\* on a hit or on NoFreeBuffer, exactly one read on a successful miss whose
\* victim is clean, exactly one write followed by exactly one read on a
\* successful miss whose victim is dirty.
C13_DiskOperationsPerFetch ==
    IsFetch =>
        /\ Len(last.io) <= 2
        /\ (last.path = "hit" \/ last.result = "no_free_buffer")
              => last.io = <<>>
        /\ (last.path = "miss" /\ last.result = "ok")
              => IF pre.buffers[last.victim].is_dirty
                 THEN /\ Len(last.io) = 2
                      /\ last.io[1].op = "write" /\ last.io[1].ok
                      /\ last.io[2].op = "read" /\ last.io[2].ok
                 ELSE /\ Len(last.io) = 1
                      /\ last.io[1].op = "read" /\ last.io[1].ok

\* a successful miss evicted a clean resident page with a single read
C13_Witness ==
    /\ IsFetch /\ last.path = "miss" /\ last.result = "ok"
    /\ ~pre.buffers[last.victim].is_dirty
    /\ \E q \in PageIds : pre.page_table[q] = last.victim
    /\ Len(last.io) = 1

\* a frame that a successful fetch has loaded (the placeholder is all zero)
Loaded(b) == buffers[b].page # ZeroPage

\* C14: from the empty page table over placeholder frames, across successful
\* fetches, the table gains the requested page's entry on each load and loses
\* only the entry of the page evicted from the repurposed frame: a miss never
\* removes the entry of a page still loaded in another frame, so every loaded
\* page has its entry and no page is loaded in two frames at once.
C14_TableTracksLoadedPages ==
    /\ (IsFetch /\ last.result = "ok" /\ last.path = "miss") =>
          /\ page_table[last.page_id] = last.victim
          /\ \A q \in PageIds \ {last.page_id} :
                page_table[q] # pre.page_table[q]
                   => /\ pre.page_table[q] = last.victim
                      /\ page_table[q] = None
    /\ \A b \in BufferIds :
          Loaded(b) => page_table[buffers[b].page_id] = b
    /\ \A b, c \in BufferIds :
          (b # c /\ Loaded(b) /\ Loaded(c))
             => buffers[b].page_id # buffers[c].page_id

EvictActive == ev.pc \in {"loop", "done"}
EntryFrame(b) == ev.entry.buffers[b]

\* C15: whenever evict returns a victim b, frame b's usage_count is 0 and the
\* cursor equals b (not advanced past it); when the frame at the cursor has
\* usage_count 0 on entry, evict returns it in its first iteration and
\* changes no usage_count and not the cursor.
C15_VictimIsAtCursorWithCountZero ==
    /\ (ev.pc = "done" /\ ev.result # None) =>
          /\ buffers[ev.result].usage_count = 0
          /\ next_victim_id = ev.result
    /\ (EvictActive /\ ev.visit # NoVisit
            /\ EntryFrame(ev.entry.next_victim_id).usage_count = 0) =>
          /\ ev.pc = "done"
          /\ ev.result = ev.entry.next_victim_id
          /\ buffers = ev.entry.buffers
          /\ next_victim_id = ev.entry.next_victim_id

\* evict swept past the entry cursor and returned another frame
C15_Witness ==
    /\ ev.pc = "done" /\ ev.result # None
    /\ ev.result # ev.entry.next_victim_id
    /\ EntryFrame(ev.result).usage_count > 0

\* C16: a visit to a frame with usage_count n > 0 and no outside holder
\* lowers it to exactly n - 1 and moves the cursor on without selecting the
\* frame; a visit to a pinned frame with usage_count > 0 leaves its
\* usage_count unchanged; evict never increases a usage_count.
C16_SecondChance ==
    (EvictActive /\ ev.visit # NoVisit) =>
        /\ (ev.visit.usage_count > 0 /\ ~ev.visit.pinned) =>
              /\ buffers[ev.visit.id].usage_count = ev.visit.usage_count - 1
              /\ next_victim_id = increment_id(ev.visit.id)
              /\ ev.pc = "loop"
        /\ (ev.visit.usage_count > 0 /\ ev.visit.pinned) =>
              buffers[ev.visit.id].usage_count = ev.visit.usage_count
        /\ \A b \in BufferIds :
              buffers[b].usage_count <= EntryFrame(b).usage_count

\* the sweep lowered an unpinned frame from above 1 while another is pinned
C16_Witness ==
    /\ ev.pc = "loop"
    /\ ev.visit.usage_count > 1 /\ ~ev.visit.pinned
    /\ buffers[ev.visit.id].usage_count = ev.visit.usage_count - 1
    /\ \E b \in BufferIds : Pinned(buffers[b]) /\ buffers[b].usage_count > 0

\* C17: for every cursor position, usage counts and pin pattern evict
\* terminates, returning a victim or None, and the cursor stays a valid
\* index while it runs.
C17_EvictTerminates ==
    /\ [](next_victim_id \in BufferIds)
    /\ [](ev.pc = "done" => ev.result \in BufferIds \cup {None})
    /\ (ev.pc = "loop") ~> (ev.pc = "done")

\* evict returned a frame it had to sweep down from the highest usage_count
\* while another frame was pinned
C17_Witness ==
    /\ ev.pc = "done" /\ ev.result # None
    /\ EntryFrame(ev.result).usage_count = MaxUsage
    /\ \E b \in BufferIds : Pinned(buffers[b]) /\ buffers[b].usage_count > 0

\* C18: after a successful miss fetch_page(p) the victim frame's buffer has
\* page_id p, a cleared dirty flag and the bytes read from disk for p, its
\* usage_count is exactly 1, and the returned handle refers to that buffer,
\* which makes the frame pinned.
C18_LoadedFrameState ==
    (IsFetch /\ last.path = "miss" /\ last.result = "ok") =>
        /\ last.victim \in BufferIds
        /\ buffers[last.victim].page_id = last.page_id
        /\ ~buffers[last.victim].is_dirty
        /\ buffers[last.victim].page = disk[last.page_id]
        /\ buffers[last.victim].usage_count = 1
        /\ buffers[last.victim].holders = <<last.page_id>>
        /\ Pinned(buffers[last.victim])

\* a miss replaced a dirty, recently used page of another id
C18_Witness ==
    /\ IsFetch /\ last.path = "miss" /\ last.result = "ok"
    /\ pre.buffers[last.victim].is_dirty
    /\ pre.buffers[last.victim].usage_count > 0
    /\ pre.buffers[last.victim].page_id # last.page_id
    /\ pre.buffers[last.victim].page # buffers[last.victim].page

\* C19: in every state reachable from a pool with no outside holders through
\* fetch_page calls (hits, misses, failures) and handle clones and drops,
\* every frame whose buffer has an outside holder has usage_count >= 1.
C19_PinnedHasCredit ==
    \A b \in BufferIds : Pinned(buffers[b]) => buffers[b].usage_count >= 1

\* a failed fetch swept over a pinned frame, which kept its usage_count
C19_Witness ==
    /\ IsFetch /\ last.path = "miss" /\ last.result = "io_error"
    /\ \E b \in BufferIds :
          /\ b # last.victim
          /\ Pinned(buffers[b])
          /\ buffers[b].usage_count = pre.buffers[b].usage_count
    /\ \E b \in BufferIds :
          buffers[b].usage_count < pre.buffers[b].usage_count

\* C20: every successful fetch_page(p), after any sequence of successful and
\* failed fetches, returns a handle to a buffer whose page_id is p; no buffer
\* has live handles returned by fetches of different page ids.
C20_HandleIsForRequestedPage ==
    /\ (IsFetch /\ last.result = "ok") =>
          buffers[last.victim].page_id = last.page_id
    /\ \A b \in BufferIds :
          \A i, j \in DOMAIN buffers[b].holders :
              buffers[b].holders[i] = buffers[b].holders[j]

====
